---- MODULE Spec2Model ----
(***************************************************************************)
(* A model of decus-grep-rust: the pattern compiler (Compiler::compile,    *)
(* Compiler::cclass, Compiler::store), the bounds-tracked cursors          *)
(* (LineCursor, PatternCursor) and the backtracking matcher (pmatch,       *)
(* Pattern::is_match_at, Pattern::is_match_anchored).                      *)
(*                                                                         *)
(* Bytes are the integers 0..255.  Offsets are 0-based as in the source;   *)
(* TLA+ sequences are 1-based, so the byte at offset o of s is s[o + 1].   *)
(***************************************************************************)
EXTENDS Integers, Sequences, FiniteSets, TLC

(***************************************************************************)
(* Opcodes (grep.rs, lines 79-108).                                        *)
(***************************************************************************)
CHAR == 1
BOL == 2
EOL == 3
ANY == 4
CLASS == 5
NCLASS == 6
STAR == 7
PLUS == 8
MINUS == 9
ALPHA == 10
DIGIT == 11
NALPHA == 12
PUNCT == 13
RANGE == 14
ENDPAT == 15

(***************************************************************************)
(* The byte values of the characters the model's inputs are written with.  *)
(***************************************************************************)
Ch ==
    [ nul |-> 0, so |-> 14, si |-> 15, sp |-> 32, dollar |-> 36,
      star |-> 42, plus |-> 43, minus |-> 45, dot |-> 46, d0 |-> 48,
      colon |-> 58, A |-> 65, F |-> 70, O |-> 79, X |-> 88,
      lbrack |-> 91, bslash |-> 92, rbrack |-> 93, caret |-> 94,
      a |-> 97, d |-> 100, f |-> 102, n |-> 110, o |-> 111, x |-> 120,
      D |-> 68, N |-> 78, stx |-> 2, bel |-> 7 ]

(***************************************************************************)
(* u8 helpers of the standard library, as the code uses them.              *)
(***************************************************************************)
ToAsciiLowercase(b) == IF b >= 65 /\ b <= 90 THEN b + 32 ELSE b

IsAsciiDigit(b) == b >= 48 /\ b <= 57

IsAsciiAlphabetic(b) == (b >= 65 /\ b <= 90) \/ (b >= 97 /\ b <= 122)

IsAsciiAlphanumeric(b) == IsAsciiDigit(b) \/ IsAsciiAlphabetic(b)

(***************************************************************************)
(* All sequences over S of length at most n.                               *)
(***************************************************************************)
SeqsUpTo(S, n) == UNION { [1..k -> S] : k \in 0..n }

(***************************************************************************)
(*                              THE COMPILER                               *)
(*                                                                         *)
(* A compiler is the record of struct Compiler's fields plus the local     *)
(* pat_start of Compiler::compile and a status: "run" while compiling,     *)
(* "ok" after Ok(()), or the PatternErrorKind that was returned.  Every    *)
(* operation leaves a compiler whose status is not "run" unchanged, which  *)
(* is what the ? operator does.                                            *)
(***************************************************************************)
NewCompiler(source, limit) ==
    [ source |-> source, offset |-> 0, pbuf |-> << >>, pmax |-> limit,
      pat_start |-> 0, status |-> "run" ]

Fail(c, kind) == IF c.status = "run" THEN [c EXCEPT !.status = kind] ELSE c

StoreOffByOne(c, op) ==
    IF c.status # "run" THEN c
    ELSE IF Len(c.pbuf) > c.pmax /\ c.pmax # 0 THEN Fail(c, "ComplexPattern")
    ELSE [c EXCEPT !.pbuf = Append(@, op)]

Store(c, op) ==
    IF c.status # "run" THEN c
    ELSE IF Len(c.pbuf) >= c.pmax /\ c.pmax # 0 THEN Fail(c, "ComplexPattern")
    ELSE [c EXCEPT !.pbuf = Append(@, op)]

\* Compiler::peek: Some(byte) is modelled by HasByte(c) and PeekByte(c).
HasByte(c) == c.offset < Len(c.source)

PeekByte(c) == c.source[c.offset + 1]

\* Compiler::bump, the Some case: the byte is PeekByte of the compiler before.
Advance(c) == IF c.status = "run" THEN [c EXCEPT !.offset = @ + 1] ELSE c

RepOpcode(ch) ==
    IF ch = Ch.star THEN STAR ELSE IF ch = Ch.minus THEN MINUS ELSE PLUS

IsRepChar(ch) == ch \in {Ch.star, Ch.plus, Ch.minus}

\* matches!(self.pbuf.last(), None | Some(&(BOL | EOL | STAR | PLUS | MINUS)))
RepIllegal(pbuf) ==
    \/ Len(pbuf) = 0
    \/ pbuf[Len(pbuf)] \in {BOL, EOL, STAR, PLUS, MINUS}

ShiftAndWrapNoShift(pbuf, pat_start, pat_end, rep) ==
    [ j \in 1..Len(pbuf) |-> IF j = pat_start + 1 THEN rep ELSE pbuf[j] ]

\* pbuf.copy_within(pat_start..pat_end, pat_start + 1); pbuf[pat_start] = rep
ShiftAndWrap(pbuf, pat_start, pat_end, rep) ==
    [ j \in 1..Len(pbuf) |->
        IF j = pat_start + 1 THEN rep
        ELSE IF j >= pat_start + 2 /\ j <= pat_end + 1 THEN pbuf[j - 1]
        ELSE pbuf[j] ]

\* One iteration of the while loop of Compiler::compile whose byte ch is
\* `*`, `+` or `-`; c is the compiler after the bump that read ch.
CompileRep(c, ch) ==
    IF RepIllegal(c.pbuf) THEN Fail(c, "IllegalOccurrence")
    ELSE LET pat_end == Len(c.pbuf)
             s == Store(Store(c, ENDPAT), ENDPAT)
         IN  IF s.status # "run" THEN s
             ELSE [s EXCEPT !.pbuf =
                      ShiftAndWrap(s.pbuf, c.pat_start, pat_end, RepOpcode(ch))]

\* The loop of Compiler::cclass, from one iteration's bump to the break.
RECURSIVE CClassLoop(_, _)
CClassLoop(c, class_start) ==
    IF c.status # "run" THEN c
    ELSE IF ~HasByte(c) THEN Fail(c, "UnterminatedClass")
    ELSE
      LET ch == PeekByte(c)
          c1 == Advance(c)
      IN  IF ch = Ch.rbrack THEN c1
          ELSE IF ch = Ch.bslash THEN
            IF ~HasByte(c1) THEN Fail(c1, "BackslashUnterminatedClass")
            ELSE CClassLoop(
                   Store(Advance(c1), ToAsciiLowercase(PeekByte(c1))),
                   class_start)
          ELSE IF /\ ch = Ch.minus
                  /\ Len(c1.pbuf) - class_start > 1
                  /\ HasByte(c1)
                  /\ PeekByte(c1) # Ch.rbrack THEN
            LET low == c1.pbuf[Len(c1.pbuf)]
                popped == [c1 EXCEPT !.pbuf = SubSeq(@, 1, Len(@) - 1)]
                s == Store(Store(popped, RANGE), low)
            IN  CClassLoop(
                  Store(Advance(s), ToAsciiLowercase(PeekByte(s))),
                  class_start)
          ELSE CClassLoop(Store(c1, ToAsciiLowercase(ch)), class_start)

\* Compiler::cclass; c is the compiler after the bump that read `[`.
CClass(c) ==
    LET negated == HasByte(c) /\ PeekByte(c) = Ch.caret
        c1 == IF negated THEN Advance(c) ELSE c
        c2 == Store(c1, IF negated THEN NCLASS ELSE CLASS)
        class_start == Len(c2.pbuf)
        c3 == CClassLoop(Store(c2, 0), class_start)
        len == Len(c3.pbuf) - class_start
    IN  IF c3.status # "run" THEN c3
        ELSE IF len >= 256 THEN Fail(c3, "LargeClass")
        ELSE IF len = 0 THEN Fail(c3, "EmptyClass")
        ELSE [c3 EXCEPT !.pbuf[class_start + 1] = len]

\* The `:` arm of Compiler::compile; c is the compiler after the bump of `:`.
ColonClass(c) ==
    IF ~HasByte(c) THEN Fail(c, "NoColonType")
    ELSE LET ch == PeekByte(c)
             c1 == Advance(c)
         IN  IF ch \in {Ch.a, Ch.A} THEN Store(c1, ALPHA)
             ELSE IF ch \in {Ch.d, Ch.D} THEN Store(c1, DIGIT)
             ELSE IF ch \in {Ch.n, Ch.N} THEN Store(c1, NALPHA)
             ELSE IF ch = Ch.sp THEN Store(c1, PUNCT)
             ELSE Fail(c1, "UnknownColonType")

\* The last arm of the match in Compiler::compile: a literal, maybe escaped.
Literal(c, ch) ==
    LET escaped == ch = Ch.bslash /\ HasByte(c)
        lit == IF escaped THEN PeekByte(c) ELSE ch
        c1 == IF escaped THEN Advance(c) ELSE c
    IN  Store(Store(c1, CHAR), ToAsciiLowercase(lit))

\* One iteration of the while loop of Compiler::compile whose byte ch is not
\* a repetition operator; c is the compiler after the bump that read ch.
CompileAtom(c, ch) ==
    LET c1 == [c EXCEPT !.pat_start = Len(c.pbuf)]
    IN  IF ch = Ch.caret THEN Store(c1, BOL)
        ELSE IF ch = Ch.dollar THEN Store(c1, EOL)
        ELSE IF ch = Ch.dot THEN Store(c1, ANY)
        ELSE IF ch = Ch.lbrack THEN CClass(c1)
        ELSE IF ch = Ch.colon THEN ColonClass(c1)
        ELSE Literal(c1, ch)

\* The end of Compiler::compile, after the loop: ENDPAT, NUL, Ok(()).
CompileEnd(c) ==
    LET s == Store(Store(c, ENDPAT), 0)
    IN  IF s.status = "run" THEN [s EXCEPT !.status = "ok"] ELSE s

\* One step of Compiler::compile: a loop iteration, or the end.
CompileStep(c) ==
    IF c.status # "run" THEN c
    ELSE IF ~HasByte(c) THEN CompileEnd(c)
    ELSE IF IsRepChar(PeekByte(c)) THEN CompileRep(Advance(c), PeekByte(c))
    ELSE CompileAtom(Advance(c), PeekByte(c))

RECURSIVE CompileRun(_)
CompileRun(c) == IF c.status # "run" THEN c ELSE CompileRun(CompileStep(c))

\* Pattern::compile: the compiler when Compiler::compile has returned; its
\* pbuf is the Pattern's bytecode when its status is "ok", and its status
\* and offset are the PatternError's kind and offset otherwise.
Compile(source, limit) == CompileRun(NewCompiler(source, limit))


(***************************************************************************)
(*                               THE CURSORS                               *)
(*                                                                         *)
(* A read is a record: t = "ok" with the byte in v, or t = "err" with the  *)
(* MatchError in kind (and, for BadOpcode, the opcode in v).               *)
(***************************************************************************)
Ok(b) == [t |-> "ok", kind |-> "", v |-> b]

Err(kind, op) == [t |-> "err", kind |-> kind, v |-> op]

\* (offset as usize) < len, for an isize offset and a length: a negative
\* offset casts to a value of at least 2^63, above every length.
UsizeLess(offset, len) == offset >= 0 /\ offset < len

\* offset as usize == len
UsizeEq(offset, len) == offset >= 0 /\ offset = len

LinePeekNoTerminator(line, offset) ==
    IF UsizeLess(offset, Len(line)) THEN Ok(line[offset + 1])
    ELSE Err("LineOverrun", 0)

\* LineCursor::peek
LinePeek(line, offset) ==
    IF UsizeLess(offset, Len(line)) THEN Ok(line[offset + 1])
    ELSE IF UsizeEq(offset, Len(line)) THEN Ok(0)
    ELSE Err("LineOverrun", 0)

\* LineCursor::next: the read, and the offset after it.
LineNext(line, offset) == [r |-> LinePeek(line, offset), offset |-> offset + 1]

\* LineCursor::at_start
AtStart(line, offset) == offset = 0

AtEndOrLast(line, offset) == offset >= Len(line) - 1

\* LineCursor::at_end
AtEnd(line, offset) == UsizeEq(offset, Len(line))

PatPeekTerminator(pattern, offset) ==
    IF UsizeLess(offset, Len(pattern)) THEN Ok(pattern[offset + 1])
    ELSE IF UsizeEq(offset, Len(pattern)) THEN Ok(0)
    ELSE Err("PatternOverrun", 0)

\* PatternCursor::peek
PatPeek(pattern, offset) ==
    IF UsizeLess(offset, Len(pattern)) THEN Ok(pattern[offset + 1])
    ELSE Err("PatternOverrun", 0)

\* PatternCursor::next: the read, and the offset after it.
PatNext(pattern, offset) ==
    [r |-> PatPeek(pattern, offset), offset |-> offset + 1]

(***************************************************************************)
(*                               THE MATCHER                               *)
(*                                                                         *)
(* A frame is one active call of pmatch: lo and po are the offsets of its  *)
(* line and pattern cursors, start is its local of that name, and pc is    *)
(* where it stands: "loop" at the head of the main loop, "minus", "plus",  *)
(* "greedy_ret" and "back_ret" while the pmatch it called runs, "greedy"   *)
(* and "back" at the head of the greedy and of the backtrack loop.         *)
(* What a pmatch returns is a record: t = "some" with the end offset in v, *)
(* t = "none", or t = "err" as for the cursors; t = "idle" is no return.   *)
(***************************************************************************)
RetSome(end) == [t |-> "some", kind |-> "", v |-> end]

RetNone == [t |-> "none", kind |-> "", v |-> 0]

RetErr(e) == [t |-> "err", kind |-> e.kind, v |-> e.v]

Idle == [t |-> "idle", kind |-> "", v |-> 0]

NewFrame(lo, po) == [lo |-> lo, po |-> po, pc |-> "loop", start |-> lo]

\* What one step of a frame does: return ret (when ret is not Idle), or go
\* on as frame, after calling pmatch on copies of its cursors when call.
Return(f, r) == [ret |-> r, frame |-> f, call |-> FALSE]

Continue(f) == [ret |-> Idle, frame |-> f, call |-> FALSE]

Call(f) == [ret |-> Idle, frame |-> f, call |-> TRUE]

RECURSIVE ClassLoopNoRange(_, _, _, _)
ClassLoopNoRange(pattern, po, n, c) ==
    LET en == PatNext(pattern, po)
        e == en.r
    IN  IF e.t = "err" THEN
            [t |-> "err", kind |-> e.kind, v |-> e.v, po |-> po, n |-> n]
        ELSE IF e.v = c \/ n - 1 <= 1 THEN
            [ t |-> "ok", kind |-> "", v |-> 0, po |-> en.offset,
              n |-> IF e.v = c THEN n ELSE n - 1 ]
        ELSE ClassLoopNoRange(pattern, en.offset, n - 1, c)

\* The loop of the CLASS | NCLASS arm: n and the pattern offset at its exit.
RECURSIVE ClassLoop(_, _, _, _)
ClassLoop(pattern, po, n, c) ==
    LET en == PatNext(pattern, po)
        ln == PatNext(pattern, en.offset)
        hn == PatNext(pattern, ln.offset)
        e == en.r
        low == ln.r
        high == hn.r
        Exit(po2, n2) == [t |-> "ok", kind |-> "", v |-> 0, po |-> po2, n |-> n2]
        Bad(r) == [t |-> "err", kind |-> r.kind, v |-> r.v, po |-> po, n |-> n]
        Again(po2, n2) ==
            IF n2 <= 1 THEN Exit(po2, n2) ELSE ClassLoop(pattern, po2, n2, c)
    IN  IF e.t = "err" THEN Bad(e)
        ELSE IF e.v = RANGE THEN
            IF low.t = "err" THEN Bad(low)
            ELSE IF high.t = "err" THEN Bad(high)
            ELSE IF low.v <= c /\ c <= high.v THEN Exit(hn.offset, n - 2)
            ELSE Again(hn.offset, n - 3)
        ELSE IF e.v = c THEN Exit(en.offset, n)
        ELSE Again(en.offset, n - 1)

ClassOpLenZero(pattern, line, f, op) ==
    LET cn == LineNext(line, f.lo)
        nn == PatNext(pattern, f.po)
        c == cn.r
        n == nn.r
        f1 == [f EXCEPT !.lo = cn.offset]
        x == ClassLoop(pattern, nn.offset, n.v, ToAsciiLowercase(c.v))
    IN  IF c.t = "err" THEN Return(f1, RetErr(c))
        ELSE IF n.t = "err" THEN Return(f1, RetErr(n))
        ELSE IF x.t = "err" THEN Return(f1, RetErr(x))
        ELSE IF (op = CLASS) = (x.n <= 0) THEN Return(f1, RetNone)
        ELSE IF op = CLASS THEN Continue([f1 EXCEPT !.po = x.po + (x.n - 2)])
        ELSE Continue([f1 EXCEPT !.po = x.po])

ClassOpLoopAtHead(pattern, line, f, op) ==
    LET cn == LineNext(line, f.lo)
        nn == PatNext(pattern, f.po)
        c == cn.r
        n == nn.r
        f1 == [f EXCEPT !.lo = cn.offset]
        x == IF n.v <= 1
             THEN [t |-> "ok", kind |-> "", v |-> 0, po |-> nn.offset, n |-> n.v]
             ELSE ClassLoop(pattern, nn.offset, n.v, ToAsciiLowercase(c.v))
    IN  IF c.t = "err" THEN Return(f1, RetErr(c))
        ELSE IF n.t = "err" THEN Return(f1, RetErr(n))
        ELSE IF x.t = "err" THEN Return(f1, RetErr(x))
        ELSE IF (op = CLASS) = (x.n <= 1) THEN Return(f1, RetNone)
        ELSE IF op = CLASS THEN Continue([f1 EXCEPT !.po = x.po + (x.n - 2)])
        ELSE Continue([f1 EXCEPT !.po = x.po])

ClassOpNoBump(pattern, line, f, op) ==
    LET cn == LineNext(line, f.lo)
        nn == PatNext(pattern, f.po)
        c == cn.r
        n == nn.r
        f1 == [f EXCEPT !.lo = cn.offset]
        x == ClassLoop(pattern, nn.offset, n.v, ToAsciiLowercase(c.v))
    IN  IF c.t = "err" THEN Return(f1, RetErr(c))
        ELSE IF n.t = "err" THEN Return(f1, RetErr(n))
        ELSE IF x.t = "err" THEN Return(f1, RetErr(x))
        ELSE IF (op = CLASS) = (x.n <= 1) THEN Return(f1, RetNone)
        ELSE Continue([f1 EXCEPT !.po = x.po])

\* The CLASS | NCLASS arm; f is the frame after the opcode op was read.
ClassOp(pattern, line, f, op) ==
    LET cn == LineNext(line, f.lo)
        nn == PatNext(pattern, f.po)
        c == cn.r
        n == nn.r
        f1 == [f EXCEPT !.lo = cn.offset]
        x == ClassLoop(pattern, nn.offset, n.v, ToAsciiLowercase(c.v))
    IN  IF c.t = "err" THEN Return(f1, RetErr(c))
        ELSE IF n.t = "err" THEN Return(f1, RetErr(n))
        ELSE IF x.t = "err" THEN Return(f1, RetErr(x))
        ELSE IF (op = CLASS) = (x.n <= 1) THEN Return(f1, RetNone)
        ELSE IF op = CLASS THEN Continue([f1 EXCEPT !.po = x.po + (x.n - 2)])
        ELSE Continue([f1 EXCEPT !.po = x.po])

ByteOpPunctNul(line, f, op) ==
    LET cn == LineNext(line, f.lo)
        c == cn.r
        f1 == [f EXCEPT !.lo = cn.offset]
        fails ==
            CASE op = ANY -> c.v = 0
              [] op = DIGIT -> ~IsAsciiDigit(c.v)
              [] op = ALPHA -> ~IsAsciiAlphabetic(c.v)
              [] op = NALPHA -> ~IsAsciiAlphanumeric(c.v)
              [] op = PUNCT -> c.v > 32
    IN  IF c.t = "err" THEN Return(f1, RetErr(c))
        ELSE IF fails THEN Return(f1, RetNone)
        ELSE Continue(f1)

\* The arms that read one line byte and test it: ANY, DIGIT, ALPHA, NALPHA,
\* PUNCT; f is the frame after the opcode op was read.
ByteOp(line, f, op) ==
    LET cn == LineNext(line, f.lo)
        c == cn.r
        f1 == [f EXCEPT !.lo = cn.offset]
        fails ==
            CASE op = ANY -> c.v = 0
              [] op = DIGIT -> ~IsAsciiDigit(c.v)
              [] op = ALPHA -> ~IsAsciiAlphabetic(c.v)
              [] op = NALPHA -> ~IsAsciiAlphanumeric(c.v)
              [] op = PUNCT -> c.v = 0 \/ c.v > 32
    IN  IF c.t = "err" THEN Return(f1, RetErr(c))
        ELSE IF fails THEN Return(f1, RetNone)
        ELSE Continue(f1)

CharOpStopsAtEnd(pattern, line, f) ==
    LET cn == LineNext(line, f.lo)
        pn == PatNext(pattern, f.po)
        f1 == [f EXCEPT !.lo = cn.offset]
        f2 == [f1 EXCEPT !.po = pn.offset]
    IN  IF f.lo >= Len(line) THEN Return(f, RetNone)
        ELSE IF cn.r.t = "err" THEN Return(f1, RetErr(cn.r))
        ELSE IF pn.r.t = "err" THEN Return(f2, RetErr(pn.r))
        ELSE IF ToAsciiLowercase(cn.r.v) # pn.r.v THEN Return(f2, RetNone)
        ELSE Continue(f2)

CharOpExact(pattern, line, f) ==
    LET cn == LineNext(line, f.lo)
        pn == PatNext(pattern, f.po)
        f1 == [f EXCEPT !.lo = cn.offset]
        f2 == [f1 EXCEPT !.po = pn.offset]
    IN  IF cn.r.t = "err" THEN Return(f1, RetErr(cn.r))
        ELSE IF pn.r.t = "err" THEN Return(f2, RetErr(pn.r))
        ELSE IF cn.r.v # pn.r.v THEN Return(f2, RetNone)
        ELSE Continue(f2)

\* The CHAR arm; f is the frame after the opcode was read.
CharOp(pattern, line, f) ==
    LET cn == LineNext(line, f.lo)
        pn == PatNext(pattern, f.po)
        f1 == [f EXCEPT !.lo = cn.offset]
        f2 == [f1 EXCEPT !.po = pn.offset]
    IN  IF cn.r.t = "err" THEN Return(f1, RetErr(cn.r))
        ELSE IF pn.r.t = "err" THEN Return(f2, RetErr(pn.r))
        ELSE IF ToAsciiLowercase(cn.r.v) # pn.r.v THEN Return(f2, RetNone)
        ELSE Continue(f2)

\* while pattern.next()? != ENDPAT {}: the pattern offset after the loop.
RECURSIVE SkipSub(_, _)
SkipSub(pattern, po) ==
    LET en == PatNext(pattern, po)
    IN  IF en.r.t = "err" THEN en.r
        ELSE IF en.r.v = ENDPAT THEN Ok(en.offset)
        ELSE SkipSub(pattern, en.offset)

\* One iteration of the main loop of pmatch for a frame at "loop".
OpStep(pattern, line, f) ==
    LET on == PatNext(pattern, f.po)
        o == on.r
        op == o.v
        f1 == [f EXCEPT !.po = on.offset]
    IN  IF o.t = "err" THEN Return(f1, RetErr(o))
        ELSE IF op = ENDPAT THEN Return(f1, RetSome(f.lo))
        ELSE IF op = CHAR THEN CharOp(pattern, line, f1)
        ELSE IF op = BOL THEN
            IF ~AtStart(line, f.lo) THEN Return(f1, RetNone) ELSE Continue(f1)
        ELSE IF op = EOL THEN
            IF ~AtEnd(line, f.lo) THEN Return(f1, RetNone) ELSE Continue(f1)
        ELSE IF op \in {ANY, DIGIT, ALPHA, NALPHA, PUNCT} THEN ByteOp(line, f1, op)
        ELSE IF op \in {CLASS, NCLASS} THEN ClassOp(pattern, line, f1, op)
        ELSE IF op = MINUS THEN Call([f1 EXCEPT !.pc = "minus"])
        ELSE IF op = PLUS THEN Call([f1 EXCEPT !.pc = "plus"])
        ELSE IF op = STAR THEN Continue([f1 EXCEPT !.pc = "greedy", !.start = f.lo])
        ELSE Return(f1, Err("BadOpcode", op))

MinusStepSwallow(pattern, f, r) ==
    LET f1 == IF r.t = "some" THEN [f EXCEPT !.lo = r.v] ELSE f
        s == SkipSub(pattern, f.po)
    IN  IF s.t = "err" THEN Return(f1, RetErr(s))
        ELSE Continue([f1 EXCEPT !.po = s.v, !.pc = "loop"])

\* The MINUS arm once the pmatch it called has returned r.
MinusStep(pattern, f, r) ==
    LET f1 == IF r.t = "some" THEN [f EXCEPT !.lo = r.v] ELSE f
        s == SkipSub(pattern, f.po)
    IN  IF r.t = "err" THEN Return(f, r)
        ELSE IF s.t = "err" THEN Return(f1, RetErr(s))
        ELSE Continue([f1 EXCEPT !.po = s.v, !.pc = "loop"])

PlusStepOptional(f, r) ==
    IF r.t = "err" THEN Return(f, r)
    ELSE IF r.t = "none" THEN Continue([f EXCEPT !.start = f.lo, !.pc = "greedy"])
    ELSE Continue([f EXCEPT !.lo = r.v, !.start = r.v, !.pc = "greedy"])

\* The PLUS arm once the pmatch of its first, required match has returned r.
PlusStep(f, r) ==
    IF r.t = "err" THEN Return(f, r)
    ELSE IF r.t = "none" THEN Return(f, RetNone)
    ELSE Continue([f EXCEPT !.lo = r.v, !.start = r.v, !.pc = "greedy"])

\* The end of the greedy loop: bump after the sub-pattern, go to backtrack.
GreedyExit(pattern, f) ==
    LET s == SkipSub(pattern, f.po)
    IN  IF s.t = "err" THEN Return(f, RetErr(s))
        ELSE Continue([f EXCEPT !.po = s.v, !.pc = "back"])

\* The head of the greedy loop: while line.peek()? != b'\0'.
GreedyStep(pattern, line, f) ==
    LET c == LinePeek(line, f.lo)
    IN  IF c.t = "err" THEN Return(f, RetErr(c))
        ELSE IF c.v # 0 THEN Call([f EXCEPT !.pc = "greedy_ret"])
        ELSE GreedyExit(pattern, f)

GreedyRetStepRecursive(pattern, f, r) ==
    IF r.t = "err" THEN Return(f, r)
    ELSE IF r.t = "none" THEN GreedyExit(pattern, f)
    ELSE Call([f EXCEPT !.lo = r.v, !.po = f.po - 1, !.pc = "back_ret"])

\* The body of the greedy loop once the pmatch it called has returned r.
GreedyRetStep(pattern, f, r) ==
    IF r.t = "err" THEN Return(f, r)
    ELSE IF r.t = "none" THEN GreedyExit(pattern, f)
    ELSE Continue([f EXCEPT !.lo = r.v, !.pc = "greedy"])

\* The head of the backtrack loop: while line.offset() >= start.
BackStep(f) ==
    IF f.lo >= f.start THEN Call([f EXCEPT !.pc = "back_ret"])
    ELSE Return(f, RetNone)

\* The body of the backtrack loop once the pmatch it called has returned r.
BackRetStep(f, r) ==
    IF r.t = "err" THEN Return(f, r)
    ELSE IF r.t = "some" THEN Return(f, RetSome(r.v))
    ELSE Continue([f EXCEPT !.lo = @ - 1, !.pc = "back"])


(***************************************************************************)
(*                           THE STATE MACHINE                             *)
(***************************************************************************)
VARIABLES
    comp,    \* the Compiler and, once its status is "ok", the Pattern
    line,    \* the line given to is_match
    idx,     \* the i of the for loop of is_match_at
    stack,   \* the active calls of pmatch, the innermost last
    ret,     \* what the pmatch that just returned has returned, or Idle
    result   \* what is_match returned, or "idle" / "running"

vars == <<comp, line, idx, stack, ret, result>>

\* Pattern::DEFAULT_LIMIT
DEFAULT_LIMIT == 256

M == [idx |-> idx, stack |-> stack, ret |-> ret, result |-> result]

Top(m) == m.stack[Len(m.stack)]

Pop(st) == SubSeq(st, 1, Len(st) - 1)

\* The effect of one step of the innermost pmatch on the calls.
Apply(m, out) ==
    IF out.ret.t # "idle" THEN [m EXCEPT !.stack = Pop(@), !.ret = out.ret]
    ELSE IF out.call THEN
        [m EXCEPT !.stack = Append(Append(Pop(@), out.frame),
                                   NewFrame(out.frame.lo, out.frame.po)),
                  !.ret = Idle]
    ELSE [m EXCEPT !.stack = Append(Pop(@), out.frame), !.ret = Idle]

\* The head of the for loop of is_match_at: call is_match_anchored(line, i),
\* which calls pmatch with new cursors, or leave the loop with Ok(false).
AtLoopStepInclusive(ln, m) ==
    IF m.idx <= Len(ln) THEN [m EXCEPT !.stack = <<NewFrame(m.idx, 0)>>]
    ELSE [m EXCEPT !.result = [t |-> "false", kind |-> "", v |-> 0]]

AtLoopStep(ln, m) ==
    IF m.idx < Len(ln) THEN [m EXCEPT !.stack = <<NewFrame(m.idx, 0)>>]
    ELSE [m EXCEPT !.result = [t |-> "false", kind |-> "", v |-> 0]]

\* is_match_anchored returns pmatch(..).map(|opt| opt.is_some()) and the body
\* of the for loop of is_match_at goes on from it.
AnchoredRetStep(m) ==
    IF m.ret.t = "err" THEN [m EXCEPT !.result = m.ret, !.ret = Idle]
    ELSE IF m.ret.t = "some" THEN
        [m EXCEPT !.result = [t |-> "true", kind |-> "", v |-> 0], !.ret = Idle]
    ELSE [m EXCEPT !.idx = @ + 1, !.ret = Idle]

\* One step of is_match on pattern and line ln.
MatchStep(pattern, ln, m) ==
    IF m.result.t # "running" THEN m
    ELSE IF Len(m.stack) = 0 THEN
        IF m.ret.t = "idle" THEN AtLoopStep(ln, m) ELSE AnchoredRetStep(m)
    ELSE
        LET f == Top(m)
            r == m.ret
        IN  Apply(m,
              CASE f.pc = "loop" -> OpStep(pattern, ln, f)
                [] f.pc = "greedy" -> GreedyStep(pattern, ln, f)
                [] f.pc = "back" -> BackStep(f)
                [] f.pc = "minus" -> MinusStep(pattern, f, r)
                [] f.pc = "plus" -> PlusStep(f, r)
                [] f.pc = "greedy_ret" -> GreedyRetStep(pattern, f, r)
                [] f.pc = "back_ret" -> BackRetStep(f, r))

Running == [t |-> "running", kind |-> "", v |-> 0]

NotCalled == [t |-> "idle", kind |-> "", v |-> 0]

\* is_match(line) at its call.
StartMatch == [idx |-> 0, stack |-> << >>, ret |-> Idle, result |-> Running]

SetM(m) ==
    /\ idx' = m.idx
    /\ stack' = m.stack
    /\ ret' = m.ret
    /\ result' = m.result

\* A run of is_match computed as a function is followed for four times
\* MaxSteps steps; a run that needs more is reported as "unfinished".
MaxSteps == 40

Unfinished == [t |-> "unfinished", kind |-> "", v |-> 0]

RECURSIVE RunSteps(_, _, _, _)
RunSteps(pattern, ln, m, n) ==
    IF m.result.t # "running" \/ n = 0 THEN m
    ELSE RunSteps(pattern, ln, MatchStep(pattern, ln, m), n - 1)

\* What pattern.is_match(ln) returns, the steps above followed to the end.
IsMatchResult(pattern, ln) ==
    LET m1 == RunSteps(pattern, ln, StartMatch, MaxSteps)
        m2 == RunSteps(pattern, ln, m1, MaxSteps)
        m3 == RunSteps(pattern, ln, m2, MaxSteps)
        m4 == RunSteps(pattern, ln, m3, MaxSteps)
    IN  IF m4.result.t = "running" THEN Unfinished ELSE m4.result

RECURSIVE RunCalls(_, _, _, _)
RunCalls(pattern, ln, m, n) ==
    IF Len(m.stack) = 0 \/ n = 0 THEN m
    ELSE RunCalls(pattern, ln, MatchStep(pattern, ln, m), n - 1)

\* What pmatch returns when called with the line cursor at lo and the
\* pattern cursor at po, followed like IsMatchResult.
PmatchResult(pattern, ln, lo, po) ==
    LET m0 == [StartMatch EXCEPT !.stack = <<NewFrame(lo, po)>>]
        m1 == RunCalls(pattern, ln, MatchStep(pattern, ln, m0), MaxSteps)
        m2 == RunCalls(pattern, ln, m1, MaxSteps)
        m3 == RunCalls(pattern, ln, m2, MaxSteps)
        m4 == RunCalls(pattern, ln, m3, MaxSteps)
    IN  IF Len(m4.stack) # 0 THEN Unfinished ELSE m4.ret

\* What is_match_anchored(ln, offset) returns.
AnchoredResult(pattern, ln, offset) == PmatchResult(pattern, ln, offset, 0)

Pbuf == comp.pbuf

TopPc == IF Len(stack) = 0 THEN "none" ELSE stack[Len(stack)].pc

\* The opcode the innermost pmatch is about to read, -1 past the bytecode.
NextOp ==
    IF Len(stack) = 0 THEN -1
    ELSE LET o == PatPeek(Pbuf, stack[Len(stack)].po)
         IN  IF o.t = "err" THEN -1 ELSE o.v

\* One step of the running is_match.
Step ==
    /\ result.t = "running"
    /\ SetM(MatchStep(Pbuf, line, M))
    /\ UNCHANGED <<comp, line>>

(***************************************************************************)
(* The inputs.                                                             *)
(***************************************************************************)
MaxSrcLen == 2

MaxLineLen == 3

SrcBytes == {Ch.f, Ch.o, Ch.O, Ch.caret, Ch.dollar, Ch.star, Ch.plus, Ch.minus}

LineBytes == {Ch.f, Ch.o, Ch.O}

CraftedSources ==
    { <<Ch.lbrack, Ch.caret, Ch.rbrack>>,
      <<Ch.lbrack, Ch.caret, Ch.rbrack, Ch.o>>,
      <<Ch.o, Ch.star, Ch.lbrack, Ch.caret, Ch.rbrack>>,
      <<Ch.lbrack, Ch.caret, Ch.so, Ch.rbrack, Ch.star>>,
      <<Ch.lbrack, Ch.caret, Ch.so, Ch.rbrack, Ch.plus>>,
      <<Ch.lbrack, Ch.caret, Ch.so, Ch.rbrack, Ch.minus>>,
      <<Ch.f, Ch.o, Ch.star>>, <<Ch.f, Ch.o, Ch.plus>>, <<Ch.f, Ch.o, Ch.minus>>,
      <<Ch.o, Ch.star, Ch.star>>, <<Ch.o, Ch.minus, Ch.star>>,
      <<Ch.o, Ch.plus, Ch.plus>>, <<Ch.o, Ch.star, Ch.minus>>,
      <<Ch.caret, Ch.o, Ch.dollar>>, <<Ch.F, Ch.O, Ch.star>>,
      <<Ch.o, Ch.nul, Ch.o>>,
      <<Ch.o, Ch.minus, Ch.o>>, <<Ch.o, Ch.minus, Ch.f>>,
      <<Ch.dot>>, <<Ch.dot, Ch.o>>, <<Ch.o, Ch.dot>>, <<Ch.dot, Ch.star, Ch.o>>,
      <<Ch.colon, Ch.sp>>, <<Ch.o, Ch.colon, Ch.sp>>,
      <<Ch.colon, Ch.sp, Ch.o>> }

\* The sources that are one character class, `[...]` or `[^...]`.
MaxClassLen == 3

ClassBytes == {Ch.f, Ch.o, Ch.minus}

ClassSources ==
    { <<Ch.lbrack>> \o neg \o body \o <<Ch.rbrack>> :
        neg \in {<< >>, <<Ch.caret>>}, body \in SeqsUpTo(ClassBytes, MaxClassLen) }

\* A class before a remainder, in a repetition, in upper case, and classes
\* with the byte 0x0e.
CraftedClasses ==
    { <<Ch.lbrack, Ch.f, Ch.o, Ch.rbrack, Ch.o>>,
      <<Ch.lbrack, Ch.caret, Ch.f, Ch.rbrack, Ch.o>>,
      <<Ch.lbrack, Ch.f, Ch.minus, Ch.o, Ch.rbrack, Ch.star>>,
      <<Ch.lbrack, Ch.F, Ch.minus, Ch.O, Ch.rbrack>>,
      <<Ch.lbrack, Ch.so, Ch.rbrack>>,
      <<Ch.lbrack, Ch.caret, Ch.so, Ch.rbrack>>,
      <<Ch.o, Ch.lbrack, Ch.caret, Ch.f, Ch.rbrack, Ch.o>>,
      <<Ch.si, Ch.star, Ch.o>>, <<Ch.si, Ch.minus, Ch.o>>,
      <<Ch.o, Ch.star, Ch.o, Ch.star>>, <<Ch.f, Ch.plus, Ch.o, Ch.star, Ch.f>>,
      <<Ch.lbrack, Ch.caret, Ch.f, Ch.rbrack, Ch.lbrack, Ch.caret, Ch.f, Ch.rbrack, Ch.o>> }

MatchSources ==
    SeqsUpTo(SrcBytes, MaxSrcLen) \cup CraftedSources
        \cup ClassSources \cup CraftedClasses

\* Lines with bytes that are no letters: NUL, 0x0e, 0x0f, space.
CraftedLines ==
    { <<Ch.nul>>, <<Ch.nul, Ch.o>>, <<Ch.o, Ch.nul>>, <<Ch.o, Ch.nul, Ch.o>>,
      <<Ch.sp>>, <<Ch.o, Ch.sp>>, <<Ch.sp, Ch.o>>,
      <<Ch.so>>, <<Ch.si>>, <<Ch.o, Ch.si>>, <<Ch.so, Ch.o>> }

Lines == SeqsUpTo(LineBytes, MaxLineLen) \cup CraftedLines

(***************************************************************************)
(* The matcher: a Pattern, compiled, and one call of is_match on it.       *)
(***************************************************************************)
Init ==
    /\ \E src \in MatchSources : comp = Compile(src, DEFAULT_LIMIT)
    /\ comp.status = "ok"
    /\ line = << >>
    /\ idx = 0
    /\ stack = << >>
    /\ ret = Idle
    /\ result = NotCalled

\* pattern.is_match(line, debug)
IsMatch ==
    /\ result.t = "idle"
    /\ comp.status = "ok"
    /\ \E ln \in Lines : line' = ln
    /\ SetM(StartMatch)
    /\ UNCHANGED comp

\* The head of the for loop of is_match_at.
IsMatchAt ==
    /\ TopPc = "none"
    /\ ret.t = "idle"
    /\ Step

\* is_match_anchored returns to the for loop of is_match_at.
AnchoredReturn ==
    /\ TopPc = "none"
    /\ ret.t # "idle"
    /\ Step

\* One iteration of the main loop of pmatch that calls no pmatch.
PmatchOp ==
    /\ TopPc = "loop"
    /\ NextOp \notin {MINUS, PLUS, STAR}
    /\ Step

PmatchMinus ==
    /\ TopPc = "loop"
    /\ NextOp = MINUS
    /\ Step

PmatchPlus ==
    /\ TopPc = "loop"
    /\ NextOp = PLUS
    /\ Step

PmatchStar ==
    /\ TopPc = "loop"
    /\ NextOp = STAR
    /\ Step

MinusReturn ==
    /\ TopPc = "minus"
    /\ Step

PlusReturn ==
    /\ TopPc = "plus"
    /\ Step

GreedyLoop ==
    /\ TopPc = "greedy"
    /\ Step

GreedyReturn ==
    /\ TopPc = "greedy_ret"
    /\ Step

BackLoop ==
    /\ TopPc = "back"
    /\ Step

BackReturn ==
    /\ TopPc = "back_ret"
    /\ Step

Next ==
    \/ IsMatch
    \/ IsMatchAt
    \/ AnchoredReturn
    \/ PmatchOp
    \/ PmatchMinus
    \/ PmatchPlus
    \/ PmatchStar
    \/ MinusReturn
    \/ PlusReturn
    \/ GreedyLoop
    \/ GreedyReturn
    \/ BackLoop
    \/ BackReturn

Spec == Init /\ [][Next]_vars

\* The sources with a repetition operator among the crafted ones.
RepetitionSources ==
    { src \in CraftedSources :
        \E k \in 1..Len(src) : IsRepChar(src[k]) }

\* A Pattern compiled from a source with a repetition.
FairInit == Init /\ comp.source \in RepetitionSources

\* A call of is_match runs on: no step of it waits for anything.
FairSpec == FairInit /\ [][Next]_vars /\ WF_vars(Next)


(***************************************************************************)
(* The compiler alone: Pattern::compile on a source and a limit, one       *)
(* iteration of the loop of Compiler::compile at a time.                   *)
(***************************************************************************)
MaxCompLen == 3

MaxLimit == 6

CompBytes ==
    { Ch.a, Ch.caret, Ch.dollar, Ch.dot, Ch.star, Ch.plus, Ch.minus,
      Ch.lbrack, Ch.rbrack, Ch.colon, Ch.bslash, Ch.stx }

CompSources == SeqsUpTo(CompBytes, MaxCompLen)

Limits == 0..MaxLimit

CompileInit ==
    /\ \E src \in CompSources, limit \in Limits : comp = NewCompiler(src, limit)
    /\ line = << >>
    /\ idx = 0
    /\ stack = << >>
    /\ ret = Idle
    /\ result = NotCalled

CompileAct ==
    /\ comp.status = "run"
    /\ comp' = CompileStep(comp)
    /\ UNCHANGED <<line, idx, stack, ret, result>>

\* An iteration of the loop on `*`, `+` or `-`.
CompileRepetition ==
    /\ HasByte(comp)
    /\ IsRepChar(PeekByte(comp))
    /\ CompileAct

\* An iteration of the loop on any other byte.
CompileOther ==
    /\ HasByte(comp)
    /\ ~IsRepChar(PeekByte(comp))
    /\ CompileAct

\* The source is exhausted: the final ENDPAT and NUL.
CompileFinish ==
    /\ ~HasByte(comp)
    /\ CompileAct

CompileNext ==
    \/ CompileRepetition
    \/ CompileOther
    \/ CompileFinish

CompileSpec == CompileInit /\ [][CompileNext]_vars

(***************************************************************************)
(*                              THE PROPERTIES                             *)
(***************************************************************************)
\* is_match has returned.
Final == result.t \in {"true", "false", "err"}

\* The lowest offset in 0..last whose anchored attempt is not Ok(false),
\* or -1 when every one of them is.
LowestDecided(pattern, ln, last) ==
    LET S == {i \in 0..last : AnchoredResult(pattern, ln, i).t # "none"}
    IN  IF S = {} THEN -1 ELSE CHOOSE i \in S : \A j \in S : i <= j

\* is_match is true exactly when the lowest offset in 0..last whose attempt
\* is not Ok(false) succeeds, and it has then tried no later offset.
TrueAtFirstSuccess(last) ==
    LET k == LowestDecided(Pbuf, line, last)
        hit == k >= 0 /\ AnchoredResult(Pbuf, line, k).t = "some"
    IN  /\ (result.t = "true") = hit
        /\ result.t = "true" => idx = k

\* C1 as stated: is_match tries the anchored match at every start offset in
\* 0..=line.len(), the line length included, in increasing order, and is
\* true as soon as one succeeds; so a pattern that matches the empty string
\* matches the empty line.
C1_OffsetsThroughLineLen == Final => TrueAtFirstSuccess(Len(line))

\* C1 as amended: is_match tries the anchored match at every start offset in
\* 0..line.len(), the line length excluded, in increasing order, and is true
\* as soon as one succeeds; the empty line is matched by no pattern.
C1_OffsetsBelowLineLen ==
    Final =>
        /\ TrueAtFirstSuccess(Len(line) - 1)
        /\ line = << >> => result.t = "false"

\* C1's case: the attempts at offsets 0 and 1 failed and the one at 2 matched.
C1_Witness == result.t = "true" /\ idx = 2

\* C2: for every compiled pattern and every line, is_match terminates: it
\* returns Ok(true), Ok(false) or a MatchError after finitely many steps.
C2_IsMatchTerminates == <>Final

\* When a pmatch has returned a MatchError, its caller returns that same
\* error in turn: the pmatch that called it, or is_match itself.
ErrorGoesUp ==
    ret.t = "err" =>
        IF Len(stack) = 0 THEN result' = ret
        ELSE ret' = ret /\ stack' = Pop(stack)

\* is_match returns a MatchError exactly when the lowest start offset it
\* tries whose anchored attempt is not Ok(false) ends in that error.
ErrorOfLowestOffset ==
    Final =>
        LET k == LowestDecided(Pbuf, line, Len(line) - 1)
            r == AnchoredResult(Pbuf, line, k)
        IN  IF k >= 0 /\ r.t = "err" THEN result = r ELSE result.t # "err"

\* C3: match errors are never swallowed: a MatchError that any pmatch call
\* returns is returned by every enclosing call up to is_match_anchored, and
\* is_match returns the error of the lowest start offset whose attempt is
\* not Ok(false), unless that attempt matched.
C3_ErrorsPropagate == []ErrorOfLowestOffset /\ [][ErrorGoesUp]_vars

\* C3's case: the pmatch of a sub-pattern or of a remainder returned an
\* error to the pmatch that called it.
C3_Witness == ret.t = "err" /\ Len(stack) >= 1

\* C4: for a source that compiles with limit 0 to L bytes and a limit > 0,
\* compile returns the same bytecode when L <= limit and ComplexPattern when
\* L > limit; bytecode compiled under a limit > 0 is never longer than it,
\* and limit 0 never yields ComplexPattern.
C4_CapacityEnforced ==
    comp.status # "run" =>
        LET c0 == Compile(comp.source, 0)
        IN  /\ (comp.pmax > 0 /\ c0.status = "ok") =>
                  IF Len(c0.pbuf) <= comp.pmax
                  THEN comp.status = "ok" /\ comp.pbuf = c0.pbuf
                  ELSE comp.status = "ComplexPattern"
            /\ (comp.pmax > 0 /\ comp.status = "ok") =>
                  Len(comp.pbuf) <= comp.pmax
            /\ comp.pmax = 0 => comp.status # "ComplexPattern"

\* C4's case: a source whose bytecode is one byte longer than the limit.
C4_Witness ==
    /\ comp.status = "ComplexPattern"
    /\ Compile(comp.source, 0).status = "ok"
    /\ Len(Compile(comp.source, 0).pbuf) = comp.pmax + 1

\* The compiler is about to read a repetition operator.
AtRepetition ==
    comp.status = "run" /\ HasByte(comp) /\ IsRepChar(PeekByte(comp))

\* The opcode of the atom that precedes the source position, when there is
\* one: the compiler has put it at the atom's start.
PrecedingAtom == comp.pbuf[comp.pat_start + 1]

\* C5: `*`, `+` or `-` fails with IllegalOccurrence, the offset being the
\* number of source bytes consumed so far, exactly when no atom precedes it
\* or the preceding atom is BOL, EOL or a STAR, PLUS or MINUS repetition.
C5_IllegalOccurrenceExactly ==
    [][AtRepetition =>
        ((comp'.status = "IllegalOccurrence" /\ comp'.offset = comp.offset + 1)
          <=> (\/ Len(comp.pbuf) = 0
               \/ PrecedingAtom \in {BOL, EOL, STAR, PLUS, MINUS}))]_vars

\* C6: an accepted repetition operator turns the buffer B, whose last atom
\* starts at s, into B[0..s] ++ [REP] ++ B[s..] ++ [ENDPAT].
C6_RepetitionWraps ==
    [][(AtRepetition /\ comp'.status = "run") =>
        LET B == comp.pbuf
            s == comp.pat_start
            ch == PeekByte(comp)
            REP == IF ch = Ch.star THEN STAR
                   ELSE IF ch = Ch.plus THEN PLUS ELSE MINUS
        IN  /\ comp'.pbuf = SubSeq(B, 1, s) \o <<REP>>
                              \o SubSeq(B, s + 1, Len(B)) \o <<ENDPAT>>
            /\ Len(comp'.pbuf) = Len(B) + 2]_vars

\* C6's case: a repetition operator was accepted after an atom that is not
\* the first of the pattern.
C6_Witness ==
    /\ comp.status = "run"
    /\ comp.offset >= 1
    /\ IsRepChar(comp.source[comp.offset])
    /\ comp.pat_start >= 1
    /\ comp.pbuf[comp.pat_start + 1] \in {STAR, PLUS, MINUS}

\* The offsets beyond a buffer's two ends that the cursor reads are tried at.
MaxOver == 2

\* C7: a line cursor at offset o of a line of length n reads line[o] when
\* 0 <= o < n, the terminator 0 when o = n and LineOverrun otherwise; a
\* pattern cursor at offset o of bytecode of length m reads pattern[o] when
\* 0 <= o < m and PatternOverrun otherwise; next leaves the offset at o + 1.
C7_CursorReads ==
    /\ \A o \in (0 - MaxOver)..(Len(line) + MaxOver) :
          LineNext(line, o) =
            [ r |-> IF 0 <= o /\ o < Len(line) THEN Ok(line[o + 1])
                    ELSE IF o = Len(line) THEN Ok(0)
                    ELSE Err("LineOverrun", 0),
              offset |-> o + 1 ]
    /\ \A o \in (0 - MaxOver)..(Len(Pbuf) + MaxOver) :
          PatNext(Pbuf, o) =
            [ r |-> IF 0 <= o /\ o < Len(Pbuf) THEN Ok(Pbuf[o + 1])
                    ELSE Err("PatternOverrun", 0),
              offset |-> o + 1 ]

\* C7's case: a pmatch read the line beyond its terminator.
C7_Witness == ret.t = "err" /\ ret.kind = "LineOverrun" /\ Len(line) >= 1

\* The line made of `f` followed by copies of `o`.
IsFoLine(ln) ==
    /\ Len(ln) >= 1
    /\ ln[1] = Ch.f
    /\ \A i \in 2..Len(ln) : ln[i] = Ch.o

\* C8: `fo*` matches every line made of `f` followed by k >= 0 copies of
\* `o`, and `fo+` matches it exactly when k >= 1.
C8_Quantifiers ==
    (Final /\ IsFoLine(line)) =>
        /\ comp.source = <<Ch.f, Ch.o, Ch.star>> => result.t = "true"
        /\ comp.source = <<Ch.f, Ch.o, Ch.plus>> =>
              (result.t = "true" <=> Len(line) >= 2)

\* C8's case: `fo+` on the line "f".
C8_Witness ==
    /\ comp.source = <<Ch.f, Ch.o, Ch.plus>>
    /\ line = <<Ch.f>>
    /\ result.t = "false"

\* The letters the sources are written with.
Letters == {b \in SrcBytes : IsAsciiAlphabetic(b)}

SameLetter(b, x) == ToAsciiLowercase(b) = ToAsciiLowercase(x)

\* `^x` matches exactly the lines whose first byte is x, and `x$` exactly
\* those whose last byte is x, whatever the case.
AnchorsDecide ==
    Final =>
        \A x \in Letters :
            /\ comp.source = <<Ch.caret, x>> =>
                  (result.t = "true"
                    <=> (Len(line) >= 1 /\ SameLetter(line[1], x)))
            /\ comp.source = <<x, Ch.dollar>> =>
                  (result.t = "true"
                    <=> (Len(line) >= 1 /\ SameLetter(line[Len(line)], x)))

\* A pmatch that goes on after BOL or EOL has its line cursor where it was.
AnchorsConsumeNothing ==
    (TopPc = "loop" /\ NextOp \in {BOL, EOL} /\ Len(stack') = Len(stack)) =>
        stack'[Len(stack)].lo = stack[Len(stack)].lo

\* C9: `^x` matches exactly when the line's first byte is x and `x$` exactly
\* when its last byte, the one before the terminator, is x; BOL and EOL
\* consume no line byte.
C9_Anchors == []AnchorsDecide /\ [][AnchorsConsumeNothing]_vars

\* C9's case: `o$` matched the line "fo", at its last byte.
C9_Witness ==
    /\ comp.source = <<Ch.o, Ch.dollar>>
    /\ line = <<Ch.f, Ch.o>>
    /\ result.t = "true"

SwapCase(b) ==
    IF b >= 65 /\ b <= 90 THEN b + 32
    ELSE IF b >= 97 /\ b <= 122 THEN b - 32
    ELSE b

\* The byte strings that differ from s in the case of ASCII letters only.
CaseVariants(s) ==
    { [i \in 1..Len(s) |-> IF mask[i] THEN SwapCase(s[i]) ELSE s[i]] :
        mask \in [1..Len(s) -> BOOLEAN] }

\* C10: case is ignored: changing the case of letters of the source changes
\* neither the outcome of compile nor the bytecode, and changing the case of
\* letters of the line does not change what is_match returns.
C10_CaseIgnored ==
    /\ result.t = "idle" =>
          \A t \in CaseVariants(comp.source) :
              LET c == Compile(t, comp.pmax)
              IN  c.status = comp.status /\ c.pbuf = comp.pbuf
    /\ Final =>
          \A l \in CaseVariants(line) : IsMatchResult(Pbuf, l) = result

\* C10's case: the source `O` matched the line "o".
C10_Witness ==
    /\ comp.source = <<Ch.O>>
    /\ line = <<Ch.o>>
    /\ result.t = "true"

\* The source is X-R for a letter X: the optional X, then the remainder R.
IsMinusSource(src) ==
    Len(src) >= 2 /\ src[1] \in Letters /\ src[2] = Ch.minus

\* C11: MINUS is zero-or-one: the pattern `X-R` matches anchored at an offset
\* whenever R alone matches at that offset or X followed by R matches at
\* that offset (`o-o` matches the line "o").
C11_MinusZeroOrOne ==
    (Final /\ IsMinusSource(comp.source)) =>
        LET R == SubSeq(comp.source, 3, Len(comp.source))
            pR == Compile(R, DEFAULT_LIMIT).pbuf
            pXR == Compile(<<comp.source[1]>> \o R, DEFAULT_LIMIT).pbuf
        IN  \A o \in 0..Len(line) :
                (\/ AnchoredResult(pR, line, o).t = "some"
                 \/ AnchoredResult(pXR, line, o).t = "some")
                  => AnchoredResult(Pbuf, line, o).t = "some"

\* The innermost pmatch is about to execute opcode op with its line cursor
\* on the line or at its terminator.
AtOp(op) ==
    /\ result.t = "running"
    /\ TopPc = "loop"
    /\ NextOp = op
    /\ stack[Len(stack)].lo <= Len(line)

\* The byte under the line cursor of the innermost pmatch.
LineByte == LinePeek(line, stack[Len(stack)].lo).v

\* The innermost pmatch goes on after its opcode, one line byte and operands
\* pattern bytes consumed.
Consumes(operands) ==
    LET f == stack[Len(stack)]
    IN  /\ ret' = Idle
        /\ stack' = [stack EXCEPT ![Len(stack)] =
                        [f EXCEPT !.lo = f.lo + 1, !.po = f.po + 1 + operands]]

\* The innermost pmatch returns no match.
FailsToMatch == ret' = RetNone /\ stack' = Pop(stack)

\* C12: ANY fails if and only if the line cursor is at the terminator
\* position; at every offset before the line's end it consumes the byte
\* there whatever its value, a byte of value 0 included.
C12_AnyFailsOnlyAtTerminator ==
    [][AtOp(ANY) =>
        IF stack[Len(stack)].lo = Len(line) THEN FailsToMatch
        ELSE Consumes(0)]_vars

\* C13 as stated: PUNCT consumes one line byte and succeeds if and only if
\* that byte is <= 0x20, byte value 0 and the terminator included.
C13_PunctAcceptsNul ==
    [][AtOp(PUNCT) =>
        IF LineByte <= Ch.sp THEN Consumes(0) ELSE FailsToMatch]_vars

\* C13 as amended: PUNCT consumes one line byte and succeeds if and only if
\* that byte is in 0x01..=0x20; byte value 0, the terminator read at the end
\* of the line or a NUL inside the line, fails PUNCT.
C13_PunctRejectsNul ==
    [][AtOp(PUNCT) =>
        IF LineByte >= 1 /\ LineByte <= Ch.sp THEN Consumes(0)
        ELSE FailsToMatch]_vars

\* C13's case: `o: ` on the line "o": PUNCT read the terminator and failed.
C13_Witness ==
    /\ comp.source = <<Ch.o, Ch.colon, Ch.sp>>
    /\ line = <<Ch.o>>
    /\ result.t = "false"

\* The source starts with a character class that is closed.
IsClassSource(src) ==
    /\ Len(src) >= 2
    /\ src[1] = Ch.lbrack
    /\ \E k \in 2..Len(src) : src[k] = Ch.rbrack

ClassNegated(src) == src[2] = Ch.caret

\* What stands between `[` or `[^` and the first `]`.
ClassBody(src) ==
    LET first == IF ClassNegated(src) THEN 3 ELSE 2
        S == {k \in first..Len(src) : src[k] = Ch.rbrack}
        close == IF S = {} THEN Len(src) + 1 ELSE CHOOSE k \in S : \A j \in S : k <= j
    IN  SubSeq(src, first, close - 1)

\* The entries a class body stands for, from its byte i on: `x-y` is the
\* range x..=y, any other byte is itself, letters in lower case.
RECURSIVE ClassItems(_, _)
ClassItems(body, i) ==
    IF i > Len(body) THEN << >>
    ELSE IF i + 2 <= Len(body) /\ body[i + 1] = Ch.minus THEN
        << [ range |-> TRUE, low |-> ToAsciiLowercase(body[i]),
             high |-> ToAsciiLowercase(body[i + 2]) ] >>
          \o ClassItems(body, i + 3)
    ELSE << [ range |-> FALSE, low |-> ToAsciiLowercase(body[i]),
              high |-> ToAsciiLowercase(body[i]) ] >>
          \o ClassItems(body, i + 1)

\* A `-` stands directly after a range of the body, from its byte i on.
RECURSIVE MinusAfterRange(_, _)
MinusAfterRange(body, i) ==
    IF i > Len(body) THEN FALSE
    ELSE IF i + 2 <= Len(body) /\ body[i + 1] = Ch.minus THEN
        \/ (i + 3 <= Len(body) /\ body[i + 3] = Ch.minus)
        \/ MinusAfterRange(body, i + 3)
    ELSE MinusAfterRange(body, i + 1)

\* The classes C14 is about: not empty, no byte 0x0e, no `-` directly after
\* a range (and, here, no backslash).
WellFormedClass(body) ==
    /\ Len(body) >= 1
    /\ \A k \in 1..Len(body) : body[k] \notin {Ch.so, Ch.bslash}
    /\ ~MinusAfterRange(body, 1)

InClass(items, c) ==
    \E k \in 1..Len(items) : items[k].low <= c /\ c <= items[k].high

\* The bytes the entries take in the bytecode: one a literal, three a range.
RECURSIVE EntryBytes(_)
EntryBytes(items) ==
    IF items = << >> THEN 0
    ELSE (IF Head(items).range THEN 3 ELSE 1) + EntryBytes(Tail(items))

C15_EmptyClassNeverMatches ==
    comp.source = <<Ch.lbrack, Ch.rbrack>> =>
        /\ Pbuf = <<CLASS, 1, ENDPAT, 0>>
        /\ ret.t # "err"
        /\ Final => result.t = "false"

\* C15's case: `[]` on a line with the byte 0x0f, which equals the ENDPAT
\* read as a class entry.
C15_Witness ==
    /\ comp.source = <<Ch.lbrack, Ch.rbrack>>
    /\ line = <<Ch.o, Ch.si>>
    /\ result.t = "false"

\* C16: the source `[^]` compiles to exactly [NCLASS, 1, ENDPAT, 0], and
\* is_match on every non-empty line returns Err(BadOpcode{op: 0}): the
\* class is satisfied at once, the ENDPAT is consumed as a class entry and
\* the trailing 0 is read as an opcode.
C16_EmptyNegatedClassBadOpcode ==
    comp.source = <<Ch.lbrack, Ch.caret, Ch.rbrack>> =>
        /\ Pbuf = <<NCLASS, 1, ENDPAT, 0>>
        /\ ret.t = "err" => ret = Err("BadOpcode", 0)
        /\ (Final /\ line # << >>) => result = Err("BadOpcode", 0)

\* C16's case: `[^]` on the line of the one byte 0x0f.
C16_Witness ==
    /\ comp.source = <<Ch.lbrack, Ch.caret, Ch.rbrack>>
    /\ line = <<Ch.si>>
    /\ result.t = "err"

\* C17: the source `[`, 0x0e, `]` compiles to exactly
\* [CLASS, 2, 0x0e, ENDPAT, 0], and is_match returns Ok(false) for every
\* line, the line of the byte 0x0e included, with no pattern overrun.
C17_ClassRangeAliasing ==
    comp.source = <<Ch.lbrack, Ch.so, Ch.rbrack>> =>
        /\ Pbuf = <<CLASS, 2, Ch.so, ENDPAT, 0>>
        /\ ret.t # "err"
        /\ Final => result.t = "false"

\* C17's case: `[\x0e]` on the line of the one byte 0x0e.
C17_Witness ==
    /\ comp.source = <<Ch.lbrack, Ch.so, Ch.rbrack>>
    /\ line = <<Ch.so>>
    /\ result.t = "false"

\* C18: the source `[^`, 0x0e, `]` compiles to exactly
\* [NCLASS, 2, 0x0e, ENDPAT, 0], and is_match on every non-empty line
\* returns Err(PatternOverrun): the 0x0e is read as RANGE with ENDPAT and
\* the trailing 0 as its bounds, the class is satisfied, and the next opcode
\* is read past the end of the bytecode.
C18_NegatedClassRangeOverrun ==
    comp.source = <<Ch.lbrack, Ch.caret, Ch.so, Ch.rbrack>> =>
        /\ Pbuf = <<NCLASS, 2, Ch.so, ENDPAT, 0>>
        /\ ret.t = "err" => ret = Err("PatternOverrun", 0)
        /\ (TopPc = "loop" /\ NextOp = -1) => stack[Len(stack)].po = Len(Pbuf)
        /\ (Final /\ line # << >>) => result = Err("PatternOverrun", 0)

\* C18's case: `[^\x0e]` on the line "fo".
C18_Witness ==
    /\ comp.source = <<Ch.lbrack, Ch.caret, Ch.so, Ch.rbrack>>
    /\ line = <<Ch.f, Ch.o>>
    /\ result.t = "err"

\* The innermost pmatch is about to execute CHAR with its line cursor at or
\* after the terminator position.
CharAtOrAfterEnd ==
    /\ result.t = "running"
    /\ TopPc = "loop"
    /\ NextOp = CHAR
    /\ stack[Len(stack)].lo >= Len(line)

\* The innermost pmatch returns the error e.
FailsWith(e) == ret' = e /\ stack' = Pop(stack)

\* C19 as stated: CHAR with the line cursor at or after the terminator
\* position yields no-match: for every operand byte it neither succeeds nor
\* raises an error.
C19_CharNoMatchAtOrAfterEnd == [][CharAtOrAfterEnd => FailsToMatch]_vars

\* C19 as amended: CHAR with the line cursor at the terminator position reads
\* the terminator 0: it yields no-match for every operand byte but 0, and
\* with the operand 0 it succeeds and consumes the terminator; with the line
\* cursor after the terminator position it returns Err(LineOverrun).
C19_CharAtEndReadsTerminator ==
    [][CharAtOrAfterEnd =>
        LET f == stack[Len(stack)]
            operand == PatPeek(Pbuf, f.po + 1)
        IN  IF f.lo > Len(line) THEN FailsWith(Err("LineOverrun", 0))
            ELSE IF operand.t = "err" THEN FailsWith(operand)
            ELSE IF operand.v = 0 THEN Consumes(1)
            ELSE FailsToMatch]_vars

\* C19's case: `o`, NUL, `o` on the line "o": the second CHAR consumed the
\* terminator and the third read the line after it.
C19_Witness ==
    /\ comp.source = <<Ch.o, Ch.nul, Ch.o>>
    /\ line = <<Ch.o>>
    /\ result = Err("LineOverrun", 0)

\* The length of the atom whose opcode is at offset p of the bytecode, a
\* repetition's sub-pattern and closing ENDPAT included.
RECURSIVE AtomLen(_, _)
AtomLen(pbuf, p) ==
    IF p >= Len(pbuf) THEN 0
    ELSE LET op == pbuf[p + 1]
         IN  IF op = CHAR THEN 2
             ELSE IF op \in {CLASS, NCLASS} THEN
                 1 + (IF p + 1 < Len(pbuf) THEN pbuf[p + 2] ELSE 0)
             ELSE IF op \in {STAR, PLUS, MINUS} THEN 2 + AtomLen(pbuf, p + 1)
             ELSE 1

\* The innermost pmatch leaves the sub-pattern of a repetition behind: MINUS
\* goes on with the main loop, STAR or PLUS with the backtrack loop.
LeavesSubPattern ==
    /\ result.t = "running"
    /\ Len(stack) >= 1
    /\ Len(stack') = Len(stack)
    /\ \/ TopPc = "minus" /\ stack'[Len(stack)].pc = "loop"
       \/ TopPc \in {"greedy", "greedy_ret"} /\ stack'[Len(stack)].pc = "back"

\* C20: after MINUS, STAR or PLUS has finished attempting its sub-pattern,
\* the pattern cursor stands at the byte immediately after the ENDPAT that
\* the compiler appended to close that sub-pattern, whatever byte values the
\* wrapped atom's operands hold.
C20_CursorAfterClosingEndpat ==
    [][LeavesSubPattern =>
        LET sub == stack[Len(stack)].po
        IN  stack'[Len(stack)].po = sub + AtomLen(Pbuf, sub) + 1]_vars

Max(a, b) == IF a >= b THEN a ELSE b

\* How deep the repetitions of the atom at offset p of the bytecode nest.
RECURSIVE AtomDepth(_, _)
AtomDepth(pbuf, p) ==
    IF p >= Len(pbuf) THEN 0
    ELSE IF pbuf[p + 1] \in {STAR, PLUS, MINUS} THEN 1 + AtomDepth(pbuf, p + 1)
    ELSE 0

\* The nesting depth of the repetitions of the pattern from offset p on.
RECURSIVE NestingDepth(_, _)
NestingDepth(pbuf, p) ==
    IF p >= Len(pbuf) \/ pbuf[p + 1] = ENDPAT THEN 0
    ELSE Max(AtomDepth(pbuf, p), NestingDepth(pbuf, p + AtomLen(pbuf, p)))

\* The number of bytecode bytes that are a repetition opcode.
RepetitionCount(pbuf) ==
    Cardinality({k \in 1..Len(pbuf) : pbuf[k] \in {STAR, PLUS, MINUS}})

\* C21 as stated: the number of simultaneously active pmatch calls never
\* exceeds 1 plus the nesting depth of the repetition operators of the
\* compiled pattern (never more than two calls when they are not nested),
\* whatever the length of the line.
C21_DepthWithinNesting == Len(stack) <= 1 + NestingDepth(Pbuf, 0)

\* C21 as amended: the number of simultaneously active pmatch calls never
\* exceeds 1 plus the number of repetition operators of the compiled
\* pattern, nested or in sequence (never more than two calls when there is
\* one), whatever the length of the line.
C21_DepthWithinRepetitions == Len(stack) <= 1 + RepetitionCount(Pbuf)

\* C21's case: `o*o*`, two repetitions in sequence, with three active calls:
\* the remainder of the first runs the second, which runs its sub-pattern.
C21_Witness ==
    /\ comp.source = <<Ch.o, Ch.star, Ch.o, Ch.star>>
    /\ Len(line) = MaxLineLen
    /\ Len(stack) = 3

\* The source has no empty class, no byte 0x0e and no byte 0x00.
PlainSource(src) ==
    /\ \A k \in 1..Len(src) : src[k] \notin {Ch.nul, Ch.so}
    /\ \A k \in 1..Len(src) :
          src[k] = Ch.lbrack =>
              /\ ~(k + 1 <= Len(src) /\ src[k + 1] = Ch.rbrack)
              /\ ~(/\ k + 2 <= Len(src)
                   /\ src[k + 1] = Ch.caret
                   /\ src[k + 2] = Ch.rbrack)

\* C22: the bytecode the compiler produces is well-formed for the matcher:
\* for every source that compiles and has no empty class, no byte 0x0e and
\* no byte 0x00, is_match returns Ok(true) or Ok(false) for every line,
\* never BadOpcode, PatternOverrun or LineOverrun.
C22_NoMatchErrorOnPlainSource ==
    PlainSource(comp.source) => ret.t # "err" /\ result.t # "err"

\* PatternError::dump, unless the kind is ComplexPattern, and the Display of
\* PatternError read source[offset - 1]: the index is in the source.
StoppedAtByteExists(c) == c.offset - 1 >= 0 /\ c.offset - 1 < Len(c.source)

\* C23: every PatternError that compile returns, for every source and every
\* limit, has 1 <= offset <= source.len(), so that the byte
\* source[offset - 1], which dump and Display read, exists.
C23_ErrorOffsetInSource ==
    comp.status \notin {"run", "ok"} =>
        /\ 1 <= comp.offset
        /\ comp.offset <= Len(comp.source)
        /\ StoppedAtByteExists(comp)

=============================================================================
